---- MODULE Spec2Model ----
(***************************************************************************)
(* Resume Review API (main.py): the request path of POST /review_resume    *)
(* and POST /review_resume2.  A request is bound, (for the file endpoint)  *)
(* its two files are decoded, the prompt is rendered, the generative model *)
(* is awaited once, the response object is checked for content, the first  *)
(* part's text is searched for a json fence and parsed as JSON, the        *)
(* parsed value is validated against ResumeReviewResponse, and the         *)
(* endpoint's except clauses turn every exception into an HTTP error.      *)
(*                                                                         *)
(* Text is a sequence of tokens.  Each token stands for the characters it  *)
(* spells, so the text is the concatenation of its tokens; the regular     *)
(* expression, str.strip and json.loads are computed on that sequence.     *)
(***************************************************************************)
EXTENDS Integers, Sequences, FiniteSets, TLC

\* ------------------------------------------------------------------ tokens
\* BT is the run of three backquotes that opens and closes a markdown fence.
BT == "BACKTICKS"
J == "json"
WS == " "
LB == "{"
RB == "}"
LS == "["
RS == "]"
Q == "\""
COLON == ":"
COMMA == ","
NUM == "1"
X == "x"

\* ------------------------------------------------------- sequence helpers
RECURSIVE Flatten(_)
Flatten(ss) == IF ss = <<>> THEN <<>> ELSE Head(ss) \o Flatten(Tail(ss))

Min(S) == CHOOSE m \in S : \A n \in S : m <= n
Max(S) == CHOOSE m \in S : \A n \in S : m >= n

\* The first index >= k of t that holds no whitespace (Len(t) + 1 if none):
\* where a greedy \s* that must be followed by a non-space character ends.
SkipWs(t, k) ==
    LET rest == {i \in k..Len(t) : t[i] # WS}
    IN IF rest = {} THEN Len(t) + 1 ELSE Min(rest)

\* str.strip()
Strip(t) ==
    LET keep == {i \in 1..Len(t) : t[i] # WS}
    IN IF keep = {} THEN <<>> ELSE SubSeq(t, Min(keep), Max(keep))

\* ------------------------------------------------- the fenced-block regex
\* The pattern of re.search in parse_gemini_response, with re.DOTALL: the
\* fence start BT J, any whitespace, a group from an opening brace to a
\* closing brace with anything between (greedy), any whitespace, the fence
\* end BT.
\* Where group(1) starts for a match attempted at i, or 0 if the fence start,
\* whitespace and an opening brace do not match there.
GroupStart(t, i) ==
    IF i + 1 <= Len(t) /\ t[i] = BT /\ t[i + 1] = J
    THEN LET j == SkipWs(t, i + 2)
         IN IF j <= Len(t) /\ t[j] = LB THEN j ELSE 0
    ELSE 0

\* The positions where group(1) may end: a closing brace after the opening
\* one, followed by optional whitespace and the fence end.
GroupEnds(t, j) ==
    {e \in (j + 1)..Len(t) :
        /\ t[e] = RB
        /\ LET k == SkipWs(t, e + 1) IN k <= Len(t) /\ t[k] = BT}

\* The greedy star takes the last possible end.
GreedyEnd(S) == Max(S)

MatchStarts(t) ==
    {i \in 1..Len(t) : GroupStart(t, i) # 0 /\ GroupEnds(t, GroupStart(t, i)) # {}}

\* re.search: the leftmost match; [found, group1].
ReSearch(t) ==
    IF MatchStarts(t) = {} THEN [found |-> FALSE, group1 |-> <<>>]
    ELSE LET j == GroupStart(t, Min(MatchStarts(t)))
         IN [found |-> TRUE, group1 |-> SubSeq(t, j, GreedyEnd(GroupEnds(t, j)))]

\* json_string of parse_gemini_response.
JsonString(response_text) ==
    LET match == ReSearch(response_text)
    IN IF match.found THEN match.group1 ELSE Strip(response_text)

\* ------------------------------------------------------------- json.loads
\* JSON values, tagged.
JStr(s) == [t |-> "str", v |-> s]
JNum == [t |-> "num", v |-> <<>>]
JArr(vs) == [t |-> "arr", v |-> vs]
JObj(ms) == [t |-> "obj", v |-> ms]

POk(v, n) == [ok |-> TRUE, val |-> v, next |-> n, err |-> ""]
PErr(m) == [ok |-> FALSE, val |-> JNum, next |-> 0, err |-> m]

\* py_scanstring: from the opening quote at i to the next quote.
ParseString(t, i) ==
    LET close == {k \in (i + 1)..Len(t) : t[k] = Q}
    IN IF close = {} THEN PErr("Unterminated string starting at")
       ELSE POk(JStr(SubSeq(t, i + 1, Min(close) - 1)), Min(close) + 1)

\* The number regex: a run of digits.
NumberEnd(t, i) ==
    LET stop == {k \in i..Len(t) : t[k] # NUM}
    IN IF stop = {} THEN Len(t) + 1 ELSE Min(stop)

RECURSIVE ParseValue(_, _), ParseElems(_, _, _), ParseMembers(_, _, _)

\* scan_once(s, idx)
ParseValue(t, i) ==
    IF i > Len(t) THEN PErr("Expecting value")
    ELSE IF t[i] = Q THEN ParseString(t, i)
    ELSE IF t[i] = LB THEN
        LET k == SkipWs(t, i + 1)
        IN IF k <= Len(t) /\ t[k] = RB THEN POk(JObj(<<>>), k + 1)
           ELSE ParseMembers(t, k, <<>>)
    ELSE IF t[i] = LS THEN
        LET k == SkipWs(t, i + 1)
        IN IF k <= Len(t) /\ t[k] = RS THEN POk(JArr(<<>>), k + 1)
           ELSE ParseElems(t, k, <<>>)
    ELSE IF t[i] = NUM THEN POk(JNum, NumberEnd(t, i))
    ELSE PErr("Expecting value")

\* JSONArray: the loop over the elements, at the start of an element.
ParseElems(t, i, acc) ==
    LET r == ParseValue(t, i)
    IN IF ~r.ok THEN r
       ELSE LET k == SkipWs(t, r.next)
                vs == Append(acc, r.val)
            IN IF k <= Len(t) /\ t[k] = RS THEN POk(JArr(vs), k + 1)
               ELSE IF k > Len(t) \/ t[k] # COMMA THEN PErr("Expecting , delimiter")
               ELSE ParseElems(t, SkipWs(t, k + 1), vs)

\* JSONObject: the loop over the members, at the start of a key.
ParseMembers(t, i, acc) ==
    IF i > Len(t) \/ t[i] # Q
    THEN PErr("Expecting property name enclosed in double quotes")
    ELSE LET key == ParseString(t, i)
         IN IF ~key.ok THEN key
            ELSE LET c == SkipWs(t, key.next)
                 IN IF c > Len(t) \/ t[c] # COLON THEN PErr("Expecting : delimiter")
                    ELSE LET r == ParseValue(t, SkipWs(t, c + 1))
                         IN IF ~r.ok THEN r
                            ELSE LET k == SkipWs(t, r.next)
                                     ms == Append(acc, [key |-> key.val.v, val |-> r.val])
                                 IN IF k <= Len(t) /\ t[k] = RB THEN POk(JObj(ms), k + 1)
                                    ELSE IF k > Len(t) \/ t[k] # COMMA
                                    THEN PErr("Expecting , delimiter")
                                    ELSE ParseMembers(t, SkipWs(t, k + 1), ms)

\* json.loads(s): one value, whitespace around it, nothing after it.
JsonLoads(s) ==
    LET r == ParseValue(s, SkipWs(s, 1))
    IN IF ~r.ok THEN r
       ELSE IF SkipWs(s, r.next) <= Len(s) THEN PErr("Extra data")
       ELSE r

\* ------------------------------------------------ ResumeReviewResponse
ListFields == <<"strengths", "weaknesses", "suggestions", "matched_keywords", "missing_keywords">>
ReviewFields == <<"review">> \o ListFields

Range(f) == {f[i] : i \in DOMAIN f}

\* The dict json.loads builds from an object's members: a later member
\* replaces an earlier one of the same key.
HasKey(ms, k) == \E i \in DOMAIN ms : ms[i].key = <<k>>
Lookup(ms, k) == ms[Max({i \in DOMAIN ms : ms[i].key = <<k>>})].val

IsStr(v) == v.t = "str"
IsStrList(v) == v.t = "arr" /\ \A i \in DOMAIN v.v : v.v[i].t = "str"
StrItems(v) == [i \in DOMAIN v.v |-> v.v[i].v]

\* A variant that fills a field left out with an empty default instead of
\* reporting it.
FieldErrorsDefaulting(ms) ==
    {f \in Range(ReviewFields) :
        /\ HasKey(ms, f)
        /\ \/ f = "review" /\ ~IsStr(Lookup(ms, f))
           \/ f # "review" /\ ~IsStrList(Lookup(ms, f))}

\* The fields pydantic reports: a key that is missing, or a value that is
\* not of the declared type (str; list[str]).
FieldErrors(ms) ==
    {f \in Range(ReviewFields) :
        \/ ~HasKey(ms, f)
        \/ f = "review" /\ ~IsStr(Lookup(ms, f))
        \/ f # "review" /\ ~IsStrList(Lookup(ms, f))}

FieldOr(ms, f, default) == IF HasKey(ms, f) THEN Lookup(ms, f) ELSE default

\* The model instance built from the keyword arguments; keys the model does
\* not declare are ignored.  It is built only when no field is in error, so
\* the defaults of FieldOr are never taken.
BuildResponse(ms) ==
    [review |-> FieldOr(ms, "review", JStr(<<>>)).v,
     strengths |-> StrItems(FieldOr(ms, "strengths", JArr(<<>>))),
     weaknesses |-> StrItems(FieldOr(ms, "weaknesses", JArr(<<>>))),
     suggestions |-> StrItems(FieldOr(ms, "suggestions", JArr(<<>>))),
     matched_keywords |-> StrItems(FieldOr(ms, "matched_keywords", JArr(<<>>))),
     missing_keywords |-> StrItems(FieldOr(ms, "missing_keywords", JArr(<<>>)))]

\* ------------------------------------------------------------- exceptions
Exc(type, msg) == [type |-> type, msg |-> msg]

EmptyOutputDetail == "Gemini API did not return expected content."
ParsePrefix == "Failed to parse Gemini API response as JSON: "
ReviewPrefix == "Failed to review resume: "
FilesPrefix == "Failed to process files: "

\* str(e): an HTTPException prints its status code before its detail.
StrExc(e) == IF e.type = "HTTPException" THEN <<"500: ">> \o e.msg ELSE e.msg

\* ResumeReviewResponse(**review_data)
\* [ok, body, exc]
NoBody == [review |-> <<>>, strengths |-> <<>>, weaknesses |-> <<>>, suggestions |-> <<>>,
           matched_keywords |-> <<>>, missing_keywords |-> <<>>]

ValidateResponse(data) ==
    IF data.t # "obj"
    THEN [ok |-> FALSE, body |-> NoBody,
          exc |-> Exc("TypeError", <<"argument after ** must be a mapping">>)]
    ELSE IF FieldErrors(data.v) # {}
    THEN [ok |-> FALSE, body |-> NoBody,
          exc |-> Exc("ValidationError", <<"validation errors for ResumeReviewResponse">>)]
    ELSE [ok |-> TRUE, body |-> BuildResponse(data.v), exc |-> Exc("", <<>>)]

\* Variants of the except clauses: without the JSONDecodeError clause, with
\* the cause alone as the detail, and the file endpoint with a
\* JSONDecodeError clause of its own.
ExceptGenericOnly(e) == [status |-> 500, detail |-> <<ReviewPrefix>> \o StrExc(e)]
ExceptBareCause(e) ==
    IF e.type = "JSONDecodeError"
    THEN [status |-> 500, detail |-> <<ParsePrefix>> \o StrExc(e)]
    ELSE [status |-> 500, detail |-> StrExc(e)]
ExceptFilesWithJsonClause(e) ==
    IF e.type = "JSONDecodeError"
    THEN [status |-> 500, detail |-> <<ParsePrefix>> \o StrExc(e)]
    ELSE [status |-> 500, detail |-> <<FilesPrefix>> \o StrExc(e)]

\* The except clauses of POST /review_resume.
HandleReviewResume(e) ==
    IF e.type = "JSONDecodeError"
    THEN [status |-> 500, detail |-> <<ParsePrefix>> \o StrExc(e)]
    ELSE [status |-> 500, detail |-> <<ReviewPrefix>> \o StrExc(e)]

\* The except clause of POST /review_resume2.
HandleReviewResume2(e) == [status |-> 500, detail |-> <<FilesPrefix>> \o StrExc(e)]

Handle(ep, e) == IF ep = 1 THEN HandleReviewResume(e) ELSE HandleReviewResume2(e)

\* ------------------------------------------------------------ json.dumps
RECURSIVE Join(_, _)
Join(ss, sep) ==
    IF ss = <<>> THEN <<>>
    ELSE IF Len(ss) = 1 THEN ss[1]
    ELSE ss[1] \o sep \o Join(Tail(ss), sep)

Sp(pretty) == IF pretty THEN <<WS>> ELSE <<>>
DumpsStr(s) == <<Q>> \o s \o <<Q>>
DumpsList(l, pretty) ==
    <<LS>> \o Join([i \in DOMAIN l |-> DumpsStr(l[i])], <<COMMA>> \o Sp(pretty)) \o <<RS>>
\* An object from its members, each <<key, the tokens of its value>>.
DumpsObj(members, pretty) ==
    <<LB>> \o Sp(pretty)
    \o Join([i \in DOMAIN members |->
                <<Q, members[i][1], Q, COLON>> \o Sp(pretty) \o members[i][2]],
            <<COMMA>> \o Sp(pretty))
    \o Sp(pretty) \o <<RB>>
ResultMembers(x, pretty) ==
    << <<"review", DumpsStr(x.review)>>,
       <<"strengths", DumpsList(x.strengths, pretty)>>,
       <<"weaknesses", DumpsList(x.weaknesses, pretty)>>,
       <<"suggestions", DumpsList(x.suggestions, pretty)>>,
       <<"matched_keywords", DumpsList(x.matched_keywords, pretty)>>,
       <<"missing_keywords", DumpsList(x.missing_keywords, pretty)>> >>
\* json.dumps(json_content) (pretty: with whitespace, as indent=2 gives).
JsonDumps(x, pretty) == DumpsObj(ResultMembers(x, pretty), pretty)

\* A markdown fence around a text.
Fenced(t) == <<BT, J, WS>> \o t \o <<WS, BT>>

\* ------------------------------------------------------ the model's replies
\* The longest list of a result, and the most pieces of a free-form reply.
MaxItems == 2
MaxPieces == 2

SeqsUpTo(S, n) == UNION {[1..k -> S] : k \in 0..n}

\* String contents: plain, empty, and ones that hold fence markers and braces.
ReviewStrs == {<<X>>, <<>>, <<BT, J, LB, RB, BT>>, <<BT, J, LB>>}
ItemStrs == {<<X>>, <<RB, BT>>}
Lists == SeqsUpTo(ItemStrs, MaxItems)

\* ReviewResult-shaped objects.
Results ==
    {[review |-> r, strengths |-> a, weaknesses |-> b, suggestions |-> <<>>,
      matched_keywords |-> b, missing_keywords |-> a] :
        r \in ReviewStrs, a \in Lists, b \in Lists}

Wraps == {"bare", "bare_pretty", "fenced", "prose_fenced"}
Wrap(x, w) ==
    CASE w = "bare" -> JsonDumps(x, FALSE)
      [] w = "bare_pretty" -> JsonDumps(x, TRUE)
      [] w = "fenced" -> Fenced(JsonDumps(x, TRUE))
      [] w = "prose_fenced" -> <<X, WS>> \o Fenced(JsonDumps(x, TRUE)) \o <<WS, X>>

\* Documents a reply may hold: a complete result, objects that miss keys,
\* that give a key the wrong shape, that add a key or repeat one, values that
\* are no object, and text that is no JSON.
Result0 ==
    [review |-> <<X>>, strengths |-> <<<<X>>>>, weaknesses |-> <<>>, suggestions |-> <<>>,
     matched_keywords |-> <<>>, missing_keywords |-> <<>>]
Docs ==
    {JsonDumps(Result0, FALSE),
     <<LB, RB>>,
     DumpsObj(<< <<"review", DumpsStr(<<X>>)>> >>, FALSE),
     DumpsObj([ResultMembers(Result0, FALSE) EXCEPT ![2] = <<"strengths", DumpsStr(<<X>>)>>], FALSE),
     DumpsObj(ResultMembers(Result0, FALSE) \o << <<"x", <<LS, NUM, RS>>>>, <<"review", DumpsStr(<<>>)>> >>, FALSE),
     <<LS, RS>>,
     <<LB, X>>}
Pieces == Docs \cup {Fenced(d) : d \in Docs} \cup {<<X>>, <<WS>>, <<BT, J>>, <<BT>>}
PieceTexts == {Flatten(ps) : ps \in SeqsUpTo(Pieces, MaxPieces)}

\* ----------------------------------------------------- the response object
Candidate(has_content, parts) == [has_content |-> has_content, parts |-> parts]
TextResponse(t) == [candidates |-> <<Candidate(TRUE, <<t>>)>>]
EmptyResponses ==
    {[candidates |-> <<>>],
     [candidates |-> <<Candidate(FALSE, <<>>)>>],
     [candidates |-> <<Candidate(TRUE, <<>>)>>],
     [candidates |-> <<Candidate(FALSE, <<>>), Candidate(TRUE, <<JsonDumps(Result0, FALSE)>>)>>],
     [candidates |-> <<Candidate(TRUE, <<>>), Candidate(TRUE, <<JsonDumps(Result0, FALSE)>>)>>]}
ManyResponses ==
    {[candidates |-> <<Candidate(TRUE, <<JsonDumps(Result0, FALSE), <<LB, X>>>>),
                       Candidate(TRUE, <<<<LB, RB>>>>)>>],
     [candidates |-> <<Candidate(TRUE, <<<<LB, X>>, JsonDumps(Result0, FALSE)>>)>>]}

\* What the upstream stands for: the object it meant to send and how it
\* wrapped it, or free-form output.
Mock(kind, x, wrap) == [kind |-> kind, x |-> x, wrap |-> wrap]
NoMock == Mock("none", NoBody, "none")
Replies ==
    {[mock |-> Mock("result", x, w), response |-> TextResponse(Wrap(x, w))] :
        x \in Results, w \in Wraps}
    \cup {[mock |-> Mock("text", NoBody, "none"), response |-> TextResponse(t)] : t \in PieceTexts}
    \cup {[mock |-> Mock("text", NoBody, "none"), response |-> r] : r \in ManyResponses}
    \cup {[mock |-> Mock("empty", NoBody, "none"), response |-> r] : r \in EmptyResponses}

\* A variant of the content check that does not look at the parts.
HasValidContentNoParts(response) ==
    /\ Len(response.candidates) > 0
    /\ response.candidates[1].has_content

\* has_valid_content of generate_gemini_review.
HasValidContent(response) ==
    /\ Len(response.candidates) > 0
    /\ response.candidates[1].has_content
    /\ Len(response.candidates[1].parts) > 0

\* ------------------------------------------------------------ the requests
FieldValues == {"missing", "list", "text"}
JsonRequests == [job_description : FieldValues, resume_text : FieldValues]

Files == [ext : {"pdf", "txt"}, readable : BOOLEAN]
NoFile == [ext |-> "none", readable |-> FALSE]
FileRequests == [resume : Files \cup {NoFile}, job_description : Files \cup {NoFile}]

Requests(ep) == IF ep = 1 THEN JsonRequests ELSE FileRequests

\* A variant of the request model whose resume_text is optional.
RequestModelErrorsOptionalResume(request) ==
    IF request.job_description # "text" THEN <<"job_description">> ELSE <<>>

\* ResumeReviewRequest: the fields the binding reports, in declaration order.
RequestModelErrors(request) ==
    (IF request.job_description # "text" THEN <<"job_description">> ELSE <<>>)
    \o (IF request.resume_text # "text" THEN <<"resume_text">> ELSE <<>>)

\* File(...): both uploads are required.
FileParamErrors(request) ==
    (IF request.resume = NoFile THEN <<"resume">> ELSE <<>>)
    \o (IF request.job_description = NoFile THEN <<"job_description">> ELSE <<>>)

BindingErrors(ep, request) ==
    IF ep = 1 THEN RequestModelErrors(request) ELSE FileParamErrors(request)

\* extract_text_from_file: [ok, exc].
ExtractTextFromFile(file) ==
    IF file.readable THEN [ok |-> TRUE, exc |-> Exc("", <<>>)]
    ELSE IF file.ext = "pdf"
    THEN [ok |-> FALSE, exc |-> Exc("PdfReadError", <<"EOF marker not found">>)]
    ELSE [ok |-> FALSE, exc |-> Exc("UnicodeDecodeError", <<"utf-8 codec cannot decode">>)]

\* ------------------------------------------------------- the state machine
VARIABLES
    pc,           \* where the request is: idle, received, handler, extracted,
                  \* awaiting, returned, checked, parsed, done
    endpoint,     \* 1: POST /review_resume, 2: POST /review_resume2 (0: none yet)
    request,      \* the request's body (1) or its uploads (2)
    mock,         \* what the upstream stood for in this request
    response,     \* the object generate_content_async returned
    review_data,  \* what parse_gemini_response returned
    status,       \* the HTTP status of the answer (0: none yet)
    detail,       \* the answer's detail, in parts
    body,         \* the answer's body when the status is 200
    calls,        \* generate_content_async calls made for this request
    steps         \* the steps this request has taken, in order

vars == <<pc, endpoint, request, mock, response, review_data, status, detail, body, calls, steps>>

NoRequest == [job_description |-> "none", resume_text |-> "none"]
NoResponse == [candidates |-> <<>>]
Endpoints == {1, 2}

Init ==
    /\ pc = "idle"
    /\ endpoint = 0
    /\ request = NoRequest
    /\ mock = NoMock
    /\ response = NoResponse
    /\ review_data = JNum
    /\ status = 0
    /\ detail = <<>>
    /\ body = NoBody
    /\ calls = 0
    /\ steps = <<>>

\* The endpoint's except clause answers the exception.
Raise(e) ==
    /\ pc' = "done"
    /\ status' = Handle(endpoint, e).status
    /\ detail' = Handle(endpoint, e).detail
    /\ body' = NoBody

\* A request arrives.
Receive ==
    /\ pc = "idle"
    /\ \E ep \in Endpoints : \E req \in Requests(ep) :
        /\ endpoint' = ep
        /\ request' = req
    /\ pc' = "received"
    /\ UNCHANGED <<mock, response, review_data, status, detail, body, calls, steps>>

\* The framework binds the request to the handler's parameters, or answers 422.
Bind ==
    /\ pc = "received"
    /\ steps' = Append(steps, "bind")
    /\ IF BindingErrors(endpoint, request) # <<>>
       THEN /\ pc' = "done"
            /\ status' = 422
            /\ detail' = BindingErrors(endpoint, request)
       ELSE /\ pc' = "handler"
            /\ UNCHANGED <<status, detail>>
    /\ UNCHANGED <<endpoint, request, mock, response, review_data, body, calls>>

\* POST /review_resume2 reads the resume, then the job description.
ExtractFiles ==
    /\ pc = "handler"
    /\ endpoint = 2
    /\ steps' = Append(steps, "extract")
    /\ LET resume_text == ExtractTextFromFile(request.resume)
           job_desc_text == ExtractTextFromFile(request.job_description)
       IN IF ~resume_text.ok THEN Raise(resume_text.exc)
          ELSE IF ~job_desc_text.ok THEN Raise(job_desc_text.exc)
          ELSE /\ pc' = "extracted"
               /\ UNCHANGED <<status, detail, body>>
    /\ UNCHANGED <<endpoint, request, mock, response, review_data, calls>>

\* generate_gemini_review renders the prompt and awaits the model.
CallModel ==
    /\ \/ pc = "handler" /\ endpoint = 1
       \/ pc = "extracted" /\ endpoint = 2
    /\ pc' = "awaiting"
    /\ calls' = calls + 1
    /\ steps' = steps \o <<"prompt", "call">>
    /\ UNCHANGED <<endpoint, request, mock, response, review_data, status, detail, body>>

\* A variant that calls the model again after it raised.
ModelRaisesRetry ==
    /\ pc = "awaiting"
    /\ mock' = Mock("raise", NoBody, "none")
    /\ IF calls < 2
       THEN /\ pc' = IF endpoint = 1 THEN "handler" ELSE "extracted"
            /\ UNCHANGED <<status, detail, body>>
       ELSE Raise(Exc("Exception", <<"Gemini API error">>))
    /\ UNCHANGED <<endpoint, request, response, review_data, calls, steps>>

\* The awaited call raises.
ModelRaises ==
    /\ pc = "awaiting"
    /\ mock' = Mock("raise", NoBody, "none")
    /\ Raise(Exc("Exception", <<"Gemini API error">>))
    /\ UNCHANGED <<endpoint, request, response, review_data, calls, steps>>

\* The awaited call returns a response object.
ModelReturns ==
    /\ pc = "awaiting"
    /\ \E r \in Replies :
        /\ mock' = r.mock
        /\ response' = r.response
    /\ pc' = "returned"
    /\ UNCHANGED <<endpoint, request, review_data, status, detail, body, calls, steps>>

\* The check of candidates, content and parts.
CheckContent ==
    /\ pc = "returned"
    /\ steps' = Append(steps, "check")
    /\ IF ~HasValidContent(response)
       THEN Raise(Exc("HTTPException", <<EmptyOutputDetail>>))
       ELSE /\ pc' = "checked"
            /\ UNCHANGED <<status, detail, body>>
    /\ UNCHANGED <<endpoint, request, mock, response, review_data, calls>>

\* raw_response_text is read and parse_gemini_response parses it.
ParseResponse ==
    /\ pc = "checked"
    /\ steps' = Append(steps, "parse")
    /\ IF response.candidates[1].parts = <<>>
       THEN /\ Raise(Exc("IndexError", <<"list index out of range">>))
            /\ UNCHANGED review_data
       ELSE LET raw_response_text == response.candidates[1].parts[1]
                parsed == JsonLoads(JsonString(raw_response_text))
            IN IF ~parsed.ok
               THEN /\ Raise(Exc("JSONDecodeError", <<parsed.err>>))
                    /\ UNCHANGED review_data
               ELSE /\ pc' = "parsed"
                    /\ review_data' = parsed.val
                    /\ UNCHANGED <<status, detail, body>>
    /\ UNCHANGED <<endpoint, request, mock, response, calls>>

\* The handler builds ResumeReviewResponse from the parsed value and returns it.
Validate ==
    /\ pc = "parsed"
    /\ steps' = Append(steps, "validate")
    /\ LET v == ValidateResponse(review_data)
       IN IF v.ok
          THEN /\ pc' = "done"
               /\ status' = 200
               /\ detail' = <<>>
               /\ body' = v.body
          ELSE Raise(v.exc)
    /\ UNCHANGED <<endpoint, request, mock, response, review_data, calls>>

\* The answer is sent; nothing of the request is kept.
Respond ==
    /\ pc = "done"
    /\ pc' = "idle"
    /\ endpoint' = 0
    /\ request' = NoRequest
    /\ mock' = NoMock
    /\ response' = NoResponse
    /\ review_data' = JNum
    /\ status' = 0
    /\ detail' = <<>>
    /\ body' = NoBody
    /\ calls' = 0
    /\ steps' = <<>>

Next ==
    \/ Receive
    \/ Bind
    \/ ExtractFiles
    \/ CallModel
    \/ ModelRaises
    \/ ModelReturns
    \/ CheckContent
    \/ ParseResponse
    \/ Validate
    \/ Respond

Spec == Init /\ [][Next]_vars

\* ---------------------------------------------------------------- claims
Took(step) == \E i \in DOMAIN steps : steps[i] = step
Contains(d, part) == \E i \in DOMAIN d : d[i] = part
IsPrefix(a, b) == Len(a) <= Len(b) /\ SubSeq(b, 1, Len(a)) = a
LastStep == IF steps = <<>> THEN "" ELSE steps[Len(steps)]

\* The response holds nothing to extract: no candidate, a first candidate
\* with no content, or content with no parts.
NoUsableContent(r) ==
    \/ r.candidates = <<>>
    \/ ~r.candidates[1].has_content
    \/ r.candidates[1].parts = <<>>

\* The text the request read from the response, once it has read it.
RawText == response.candidates[1].parts[1]

\* The parsed value is an object with the six keys, review a string and the
\* other five lists of strings.
WellShaped(v) ==
    /\ v.t = "obj"
    /\ \A i \in DOMAIN ReviewFields : HasKey(v.v, ReviewFields[i])
    /\ Lookup(v.v, "review").t = "str"
    /\ \A i \in DOMAIN ListFields :
        /\ Lookup(v.v, ListFields[i]).t = "arr"
        /\ \A k \in DOMAIN Lookup(v.v, ListFields[i]).v :
            Lookup(v.v, ListFields[i]).v[k].t = "str"

\* C1: on POST /review_resume, a response with no candidate, no content or no
\* parts ends the request with a 500 whose detail contains the empty-output
\* message; it is not answered as a JSON parse failure, its text never
\* reaches the parser, and no 200 is returned.
C1_EmptyOutputIs500 ==
    (endpoint = 1 /\ Took("check") /\ NoUsableContent(response)) =>
        /\ pc = "done"
        /\ status = 500
        /\ Contains(detail, EmptyOutputDetail)
        /\ ~Contains(detail, ParsePrefix)
        /\ ~Took("parse")
        /\ ~Took("validate")

C1_Witness ==
    /\ pc = "done"
    /\ endpoint = 1
    /\ Took("check")
    /\ response.candidates # <<>>
    /\ response.candidates[1].has_content
    /\ response.candidates[1].parts = <<>>
    /\ status = 500
    /\ Contains(detail, EmptyOutputDetail)

\* C2: on POST /review_resume the 500 detail is distinct per failure kind: an
\* empty output carries its fixed message and is not in the generic "Failed
\* to review resume: <cause>" bucket, a parse failure carries the JSON parse
\* message, and only schema mismatches and upstream call failures carry the
\* "Failed to review resume: " prefix.
C2_DetailPerKind ==
    (pc = "done" /\ endpoint = 1 /\ status = 500) =>
        /\ (LastStep = "check") =>
            (detail = <<EmptyOutputDetail>> /\ ~Contains(detail, ReviewPrefix))
        /\ (LastStep = "parse") => detail[1] = ParsePrefix
        /\ Contains(detail, ReviewPrefix) => (LastStep = "validate" \/ mock.kind = "raise")

\* C3: round trip on POST /review_resume: a reply that is a ReviewResult-shaped
\* object X wrapped in a json fence, and equally X with no fencing, is answered
\* with a 200 whose body equals X.
C3_RoundTrip ==
    (pc = "done" /\ endpoint = 1 /\ mock.kind = "result"
        /\ mock.wrap \in {"bare", "bare_pretty", "fenced"}) =>
        (status = 200 /\ body = mock.x)

C5_AllOrNothing ==
    /\ status = 200 =>
        /\ WellShaped(review_data)
        /\ body.review = Lookup(review_data.v, "review").v
        /\ \A i \in DOMAIN ListFields :
            body[ListFields[i]] = StrItems(Lookup(review_data.v, ListFields[i]))
    /\ (Took("validate") /\ ~WellShaped(review_data)) =>
        (pc = "done" /\ status = 500 /\ body = NoBody)

C5_Witness ==
    /\ pc = "done"
    /\ Took("validate")
    /\ review_data.t = "obj"
    /\ Len(review_data.v) = 1
    /\ review_data.v[1].key = <<"review">>
    /\ status = 500

C7_InvalidRequestIs422 ==
    (endpoint = 1 /\ pc # "received"
        /\ (request.job_description # "text" \/ request.resume_text # "text")) =>
        /\ pc = "done"
        /\ status = 422
        /\ request.job_description # "text" => Contains(detail, "job_description")
        /\ request.resume_text # "text" => Contains(detail, "resume_text")
        /\ ~Took("prompt")
        /\ ~Took("call")
        /\ calls = 0

C7_Witness ==
    /\ pc = "done"
    /\ endpoint = 1
    /\ request.job_description = "text"
    /\ request.resume_text = "missing"
    /\ status = 422
    /\ detail = <<"resume_text">>

\* C8: for a raw text that holds one or more json fenced blocks, the JSON
\* candidate is the text between the first fence start marker and the nearest
\* following end marker; prose around it and later blocks are left out.
\* Stated for the texts whose first block encloses an opening brace through a
\* closing brace, the blocks the extractor's pattern looks for.
\* The nearest of the ends.
LazyEnd(S) == Min(S)
FenceStarts(t) == {i \in 1..(Len(t) - 1) : t[i] = BT /\ t[i + 1] = J}
FenceEndsAfter(t, i) == {k \in (i + 2)..Len(t) : t[k] = BT}
HasFencedBlock(t) == \E i \in FenceStarts(t) : FenceEndsAfter(t, i) # {}
FirstFencedBlock(t) ==
    LET i == Min({k \in FenceStarts(t) : FenceEndsAfter(t, k) # {}})
    IN Strip(SubSeq(t, i + 2, LazyEnd(FenceEndsAfter(t, i)) - 1))
BraceDelimited(t) == Len(t) >= 2 /\ t[1] = LB /\ t[Len(t)] = RB
C8_FirstFenceNearestEnd ==
    (Took("parse") /\ HasFencedBlock(RawText) /\ BraceDelimited(FirstFencedBlock(RawText))) =>
        JsonString(RawText) = FirstFencedBlock(RawText)

\* C9: in one request, on either endpoint, the model is called at most once,
\* a failure ends the request without a second call, and the steps come in
\* the order model call, content check, parse, validation, response.
StepOrder(ep) ==
    IF ep = 2 THEN <<"bind", "extract", "prompt", "call", "check", "parse", "validate">>
    ELSE <<"bind", "prompt", "call", "check", "parse", "validate">>
C9_OneCallInOrder ==
    /\ calls <= 1
    /\ Cardinality({i \in DOMAIN steps : steps[i] = "call"}) = calls
    /\ IsPrefix(steps, StepOrder(endpoint))
    /\ (pc = "done" /\ status = 500) => LastStep \in {"extract", "call", "check", "parse", "validate"}

C9_Witness ==
    /\ pc = "done"
    /\ endpoint = 2
    /\ mock.kind = "raise"
    /\ status = 500
    /\ calls = 1
    /\ steps = <<"bind", "extract", "prompt", "call">>

\* C10: on POST /review_resume2, a failure of any stage (reading either file,
\* the model call, empty output, malformed JSON, schema mismatch) ends the
\* request with a 500 whose detail begins with "Failed to process files"; a
\* JSON parse failure does not get the JSON parse detail.
StageFailed ==
    \/ Took("extract") /\ (~request.resume.readable \/ ~request.job_description.readable)
    \/ mock.kind = "raise"
    \/ Took("check") /\ NoUsableContent(response)
    \/ Took("parse") /\ ~JsonLoads(JsonString(RawText)).ok
    \/ Took("validate") /\ ~WellShaped(review_data)
C10_FileEndpointOneBucket ==
    (endpoint = 2 /\ StageFailed) =>
        /\ pc = "done"
        /\ status = 500
        /\ detail # <<>>
        /\ detail[1] = FilesPrefix
        /\ ~Contains(detail, ParsePrefix)

C10_Witness ==
    /\ pc = "done"
    /\ endpoint = 2
    /\ LastStep = "parse"
    /\ status = 500
    /\ detail[1] = FilesPrefix
    /\ Contains(detail, "Expecting value")

====
